---- MODULE Spec2Model ----
(***************************************************************************)
(* Model of sea-api-backend/server.js: the start-up pipeline               *)
(* (loadData -> getLocalCoastline -> precomputeAndCacheIsolines ->         *)
(* route registration -> app.listen) and the GET /api/isolines handler.    *)
(*                                                                         *)
(* Strings are sequences of tokens, so that template literals are          *)
(* concatenations and String.split really cuts at the separator token.     *)
(* Numbers are integers; NaN and Infinity are two reserved values.         *)
(* Contour thresholds are kept multiplied by 9 (the divisor of the break   *)
(* formula), so that the ten breaks are integers.                          *)
(***************************************************************************)
EXTENDS Integers, Sequences, FiniteSets, TLC

(* ------------------------------ bounds --------------------------------- *)
\* the largest number of rows of data.csv
MaxRows == 3

(* --------------------------- JS values --------------------------------- *)
\* the JS value undefined (a missing column, a missing query parameter)
undefined == <<"<undefined>">>
\* the separator of the cache key and of the year-horizon combination
US == "_"
\* the separator of the date column
SLASH == "/"
\* parseFloat's result on text that is no number, and on "Infinity"
NaN == -1
Infinity == -2

\* JS truthiness of a string-or-undefined value: undefined and "" are falsy
Truthy(s) == s # undefined /\ s # <<>>

\* a value inside a template literal: undefined prints as the word
Str(s) == IF s = undefined THEN <<"undefined">> ELSE s

\* global isFinite on a number
isFinite(x) == x # NaN /\ x # Infinity

\* parseFloat on the text of a CSV cell
parseFloat(s) ==
  CASE s = "1" -> 1
    [] s = "2" -> 2
    [] s = "3" -> 3
    [] s = "Infinity" -> Infinity
    [] OTHER -> NaN

\* String.prototype.split(sep): the pieces between the separators
RECURSIVE SplitFrom(_, _, _, _)
SplitFrom(s, sep, i, cur) ==
  IF i > Len(s) THEN <<cur>>
  ELSE IF s[i] = sep THEN <<cur>> \o SplitFrom(s, sep, i + 1, <<>>)
  ELSE SplitFrom(s, sep, i + 1, Append(cur, s[i]))

split(s, sep) == SplitFrom(s, sep, 1, <<>>)

\* array element access: undefined past the end
At(arr, i) == IF i <= Len(arr) THEN arr[i] ELSE undefined

Range(s) == {s[i] : i \in 1..Len(s)}

(* ----------------------- parameters and horizons ----------------------- *)
temp_c == <<"temp", US, "c">>
salinity_psu == <<"salinity", US, "psu">>
oxygen_mgl == <<"oxygen", US, "mgl">>
ph == <<"ph">>
\* a parameter name no list of the program holds
density == <<"density">>

\* the list the warming pass iterates, in its order
parameters == <<temp_c, salinity_psu, oxygen_mgl, ph>>
\* the lists of the GET /api/isolines validation
validParams == <<temp_c, salinity_psu, oxygen_mgl, ph>>
\* the second horizon is the Cyrillic word for "bottom", written dno here
validHorizons == <<<<"0">>, <<"dno">>>>

\* p[param]: the field of a loaded row a parameter name selects
Field(p, param) ==
  CASE param = temp_c -> p.temp_c
    [] param = salinity_psu -> p.salinity_psu
    [] param = oxygen_mgl -> p.oxygen_mgl
    [] param = ph -> p.ph
    [] OTHER -> NaN

(* ------------------------------ data.csv ------------------------------- *)
RawRow(date, horizon, lon, lat, t, s, o, h) ==
  [date |-> date, horizon |-> horizon, longitude |-> lon, latitude |-> lat,
   temp_c |-> t, salinity_psu |-> s, oxygen_mgl |-> o, ph |-> h]

Date2023 == <<"01", SLASH, "02", SLASH, "2023">>
\* a date whose year part holds the key separator
DateUS == <<"01", SLASH, "02", SLASH, "2023", US, "0">>
\* a date without slashes: its year is undefined
DateBare == <<"2023">>

\* the rows a data.csv of the model is made of
RowCatalogue ==
  << RawRow(Date2023, <<"0">>, "1", "1", "1", "1", "1", "1"),
     RawRow(Date2023, <<"0">>, "2", "1", "2", "2", "2", "2"),
     RawRow(Date2023, <<"0">>, "3", "2", "abc", "3", "3", "3"),
     RawRow(Date2023, <<"0">>, "", "2", "2", "2", "2", "2"),
     RawRow(Date2023, <<"dno">>, "1", "2", "1", "1", "1", "1"),
     RawRow(Date2023, <<"10">>, "2", "2", "1", "1", "1", "1"),
     RawRow(DateUS, <<"0">>, "1", "3", "1", "1", "1", "1"),
     RawRow(DateBare, <<"0">>, "2", "3", "1", "1", "1", "1") >>

\* The files: up to MaxRows rows of the catalogue, with repetitions, in
\* catalogue order or in reverse catalogue order (the order of the rows
\* decides the insertion order of the year_horizon combinations).
RowOrders(n) ==
  {f \in [1..n -> 1..Len(RowCatalogue)] :
     \/ \A i, j \in 1..n : i < j => f[i] <= f[j]
     \/ \A i, j \in 1..n : i < j => f[i] >= f[j]}

DataFiles ==
  UNION {{[i \in 1..n |-> RowCatalogue[f[i]]] : f \in RowOrders(n)} : n \in 0..MaxRows}

\* the row mapping of loadData's 'end' handler
ProcessRow(row) ==
  [horizon |-> row.horizon,
   temp_c |-> parseFloat(row.temp_c),
   salinity_psu |-> parseFloat(row.salinity_psu),
   oxygen_mgl |-> parseFloat(row.oxygen_mgl),
   ph |-> parseFloat(row.ph),
   latitude |-> parseFloat(row.latitude),
   longitude |-> parseFloat(row.longitude),
   year |-> At(split(Str(row.date), SLASH), 3)]

processedData(results) == [i \in 1..Len(results) |-> ProcessRow(results[i])]

(* ------------------------------ geometry ------------------------------- *)
\* A geometry is the set of map cells it covers. The buffered bounding box
\* of the samples covers RegionCells; the contour lines of a grid built
\* over the samples lie inside it.
RegionCells == {1, 2}

\* an absent object (null); a present one is wrapped as <<x>>
Null == <<>>

\* What the coastline package and turf.intersect do in one run:
\* the package may lack features[0] (the access throws), the intersection
\* may throw, and the land of the world polygon may or may not reach the
\* region.
CoastEnvs ==
  { [available |-> FALSE, intersectThrows |-> FALSE, land |-> {}],
    [available |-> TRUE, intersectThrows |-> TRUE, land |-> {1, 3}],
    [available |-> TRUE, intersectThrows |-> FALSE, land |-> {1, 3}],
    [available |-> TRUE, intersectThrows |-> FALSE, land |-> {3}] }

\* turf.intersect: the common part, null when there is none
intersect(a, b) == IF a \cap b = {} THEN Null ELSE <<a \cap b>>

\* (variant) without a valid point the world polygon is returned
getLocalCoastlineWorldOnEmpty(dataPoints, env) ==
  LET validPoints ==
        SelectSeq(dataPoints, LAMBDA p : isFinite(p.longitude) /\ isFinite(p.latitude))
  IN IF ~env.available \/ env.intersectThrows THEN Null
     ELSE IF Len(validPoints) = 0 THEN <<env.land>>
     ELSE LET worldCoastlineFeature == env.land
              bufferedArea == RegionCells
              localCoastline == intersect(worldCoastlineFeature, bufferedArea)
          IN IF localCoastline # Null THEN localCoastline
             ELSE <<worldCoastlineFeature>>

getLocalCoastline(dataPoints, env) ==
  LET validPoints ==
        SelectSeq(dataPoints, LAMBDA p : isFinite(p.longitude) /\ isFinite(p.latitude))
  IN IF Len(validPoints) = 0 THEN Null
     ELSE IF ~env.available \/ env.intersectThrows THEN Null
     ELSE LET worldCoastlineFeature == env.land
              bufferedArea == RegionCells
              localCoastline == intersect(worldCoastlineFeature, bufferedArea)
          IN IF localCoastline # Null THEN localCoastline
             ELSE <<worldCoastlineFeature>>

(* --------------------------- turf: contours ---------------------------- *)
\* number of breaks and the divisor of the break step
NumBreaks == 10
BreakDiv == 9
\* fewer usable points than this: the key is cached empty
MinPoints == 3
\* the name of the tag the warming pass adds to every feature
valueField == <<"value">>

\* What the installed turf does in one run. turf.idw and turf.isolines are
\* deterministic, so the behaviour is fixed per run: one line per break
\* ("mixed"), one line per break but the first ("tail"), idw is no function
\* of the package and every call throws ("throws"), or the call throws for
\* the inputs of one parameter only ("throwsSome").
TurfModes == {"mixed", "tail", "throws", "throwsSome"}
\* the run has not called turf yet
TurfUnknown == "unknown"

\* does turf.idw / turf.isolines throw for this key's input
idwThrows(mode, param) ==
  mode = "throws" \/ (mode = "throwsSome" /\ param = salinity_psu)

\* the line isolines traces for the i-th break: by turns at sea, on land,
\* across the shore, and across the shore with a geometry turf.difference
\* cannot resolve
LineGeom(i) ==
  CASE i % 4 = 1 -> {2}
    [] i % 4 = 2 -> {1}
    [] OTHER -> {1, 2}
LineDegenerate(i) == i % 4 = 0

isoline(i, threshold, zProperty) ==
  [properties |-> (zProperty :> threshold),
   geom |-> LineGeom(i),
   degenerate |-> LineDegenerate(i)]

isolines(mode, breaks, zProperty) ==
  LET first == IF mode = "tail" THEN 2 ELSE 1
  IN [k \in 1..(Len(breaks) - first + 1) |->
        isoline(k + first - 1, breaks[k + first - 1], zProperty)]

\* turf.difference(line, polygon): throws on a degenerate line, else the
\* part of the line outside the polygon, null when nothing is left
differenceThrows(line, polygon) == line.degenerate
difference(line, polygon) ==
  IF line.geom \ polygon = {} THEN Null
  ELSE <<[properties |-> <<>>, geom |-> line.geom \ polygon, degenerate |-> FALSE]>>

featureCollection(features) == [type |-> "FeatureCollection", features |-> features]

(* ------------------- precomputeAndCacheIsolines: steps ------------------ *)
RECURSIVE AddCombos(_, _)
AddCombos(data, acc) ==
  IF data = <<>> THEN acc
  ELSE LET p == Head(data)
           combo == Str(p.year) \o <<US>> \o Str(p.horizon)
       IN IF Truthy(p.year) /\ Truthy(p.horizon) /\ combo \notin Range(acc)
          THEN AddCombos(Tail(data), Append(acc, combo))
          ELSE AddCombos(Tail(data), acc)

\* the Set of year_horizon combinations, in insertion order
UniqueParams(data) == AddCombos(data, <<>>)

\* const [year, horizon] = combo.split('_')
ComboYear(combo) == At(split(combo, US), 1)
ComboHorizon(combo) == At(split(combo, US), 2)

\* `${year}_${horizon}_${param}`
CacheKey(year, horizon, param) ==
  Str(year) \o <<US>> \o Str(horizon) \o <<US>> \o Str(param)

\* (variant) a row with any non-finite parameter is excluded for all of them
UsableWholeSample(p, year, horizon, param) ==
  /\ p.year = year
  /\ Str(p.horizon) = horizon
  /\ \A j \in 1..Len(parameters) : isFinite(Field(p, parameters[j]))
  /\ isFinite(p.longitude)
  /\ isFinite(p.latitude)

\* (variant) the filter does not look at the parameter's value
UsableAnyValue(p, year, horizon, param) ==
  /\ p.year = year
  /\ Str(p.horizon) = horizon
  /\ isFinite(p.longitude)
  /\ isFinite(p.latitude)

\* (variant) the filter of the earlier on-demand handler: coordinates unchecked
UsableNoCoords(p, year, horizon, param) ==
  /\ p.year = year
  /\ Str(p.horizon) = horizon
  /\ isFinite(Field(p, param))

Usable(p, year, horizon, param) ==
  /\ p.year = year
  /\ Str(p.horizon) = horizon
  /\ isFinite(Field(p, param))
  /\ isFinite(p.longitude)
  /\ isFinite(p.latitude)

point(p, param) ==
  [coordinates |-> <<p.longitude, p.latitude>>,
   properties |-> (param :> Field(p, param))]

Features(data, year, horizon, param) ==
  LET rows == SelectSeq(data, LAMBDA p : Usable(p, year, horizon, param))
  IN [i \in 1..Len(rows) |-> point(rows[i], param)]

MathMin(values) == CHOOSE v \in Range(values) : \A w \in Range(values) : v <= w
MathMax(values) == CHOOSE v \in Range(values) : \A w \in Range(values) : v >= w

\* the ten breaks, each multiplied by BreakDiv
Breaks(dataMin, dataMax) ==
  [k \in 1..NumBreaks |-> BreakDiv * dataMin + (k - 1) * (dataMax - dataMin)]

BreaksOf(features, param) ==
  LET dataValues == [i \in 1..Len(features) |-> features[i].properties[param]]
  IN Breaks(MathMin(dataValues), MathMax(dataValues))

\* (variant) the line is pushed as traced, nothing is subtracted
ClipOneUnclipped(clippedFeatures, line, coastlinePolygon) ==
  Append(clippedFeatures, line)

\* (variant) a line whose clip throws is dropped instead of kept
ClipOneDropOnThrow(clippedFeatures, line, coastlinePolygon) ==
  IF differenceThrows(line, coastlinePolygon) THEN clippedFeatures
  ELSE LET clippedLine == difference(line, coastlinePolygon)
       IN IF clippedLine # Null
          THEN Append(clippedFeatures,
                      [clippedLine[1] EXCEPT !.properties = line.properties])
          ELSE clippedFeatures

\* one pass of the clipping forEach
ClipOne(clippedFeatures, line, coastlinePolygon) ==
  IF differenceThrows(line, coastlinePolygon) THEN Append(clippedFeatures, line)
  ELSE LET clippedLine == difference(line, coastlinePolygon)
       IN IF clippedLine # Null
          THEN Append(clippedFeatures,
                      [clippedLine[1] EXCEPT !.properties = line.properties])
          ELSE clippedFeatures

\* (variant) only the lines that were clipped are tagged
TagValuesClippedOnly(features, param) ==
  [i \in 1..Len(features) |->
     IF features[i].degenerate THEN features[i]
     ELSE [features[i] EXCEPT
             !.properties = (valueField :> features[i].properties[param]) @@ @]]

\* (variant) the features are tagged and left in reverse order
TagValuesReversed(features, param) ==
  [i \in 1..Len(features) |->
     [features[Len(features) + 1 - i] EXCEPT
        !.properties = (valueField :> features[Len(features) + 1 - i].properties[param]) @@ @]]

\* feature.properties.value = feature.properties[param], for every feature
TagValues(features, param) ==
  [i \in 1..Len(features) |->
     [features[i] EXCEPT
        !.properties = (valueField :> features[i].properties[param]) @@ @]]

\* Map.prototype.set
MapSet(map, key, value) ==
  [k \in DOMAIN map \cup {key} |-> IF k = key THEN value ELSE map[k]]

(* ------------------------- GET /api/isolines --------------------------- *)
Response(status, error, body) == [status |-> status, error |-> error, body |-> body]
\* the body of a response that carries an error message and no collection
ErrorBody == [type |-> "error", features |-> <<>>]

Includes(list, x) == x \in Range(list)

\* (variant) a missing key is answered like a key with too few points
IsolinesHandlerEmptyOnMiss(cache, query) ==
  LET year == query.year
      horizon == query.horizon
      param == query.param
      cacheKey == CacheKey(year, horizon, param)
  IN IF ~Truthy(year) \/ ~Truthy(horizon) \/ ~Truthy(param)
     THEN Response(400, "missing_parameters", ErrorBody)
     ELSE IF ~Includes(validParams, param)
     THEN Response(400, "invalid_param", ErrorBody)
     ELSE IF ~Includes(validHorizons, horizon)
     THEN Response(400, "invalid_horizon", ErrorBody)
     ELSE IF cacheKey \in DOMAIN cache
     THEN Response(200, "", cache[cacheKey])
     ELSE Response(200, "", featureCollection(<<>>))

\* (variant) a missing key is answered 202, another status than documented
IsolinesHandlerMissAccepted(cache, query) ==
  LET year == query.year
      horizon == query.horizon
      param == query.param
      cacheKey == CacheKey(year, horizon, param)
  IN IF ~Truthy(year) \/ ~Truthy(horizon) \/ ~Truthy(param)
     THEN Response(400, "missing_parameters", ErrorBody)
     ELSE IF ~Includes(validParams, param)
     THEN Response(400, "invalid_param", ErrorBody)
     ELSE IF ~Includes(validHorizons, horizon)
     THEN Response(400, "invalid_horizon", ErrorBody)
     ELSE IF cacheKey \in DOMAIN cache
     THEN Response(200, "", cache[cacheKey])
     ELSE Response(202, "not_processed_yet", ErrorBody)

\* (variant) the horizon is not validated
IsolinesHandlerAnyHorizon(cache, query) ==
  LET year == query.year
      horizon == query.horizon
      param == query.param
      cacheKey == CacheKey(year, horizon, param)
  IN IF ~Truthy(year) \/ ~Truthy(horizon) \/ ~Truthy(param)
     THEN Response(400, "missing_parameters", ErrorBody)
     ELSE IF ~Includes(validParams, param)
     THEN Response(400, "invalid_param", ErrorBody)
     ELSE IF cacheKey \in DOMAIN cache
     THEN Response(200, "", cache[cacheKey])
     ELSE Response(404, "not_found_or_not_processed", ErrorBody)

\* the route handler: the response to one query, given the cache
IsolinesHandler(cache, query) ==
  LET year == query.year
      horizon == query.horizon
      param == query.param
      cacheKey == CacheKey(year, horizon, param)
  IN IF ~Truthy(year) \/ ~Truthy(horizon) \/ ~Truthy(param)
     THEN Response(400, "missing_parameters", ErrorBody)
     ELSE IF ~Includes(validParams, param)
     THEN Response(400, "invalid_param", ErrorBody)
     ELSE IF ~Includes(validHorizons, horizon)
     THEN Response(400, "invalid_horizon", ErrorBody)
     ELSE IF cacheKey \in DOMAIN cache
     THEN Response(200, "", cache[cacheKey])
     ELSE Response(404, "not_found_or_not_processed", ErrorBody)

\* the queries clients send: well-formed ones, and ones with a field
\* missing or empty, an unknown parameter, an unsupported horizon
QueryYears == {<<"2023">>, <<"2023", US, "0">>}
WellFormedQueries ==
  [year : QueryYears, horizon : {<<"0">>, <<"dno">>},
   param : {temp_c, salinity_psu, oxygen_mgl, ph}]
MalformedQueries ==
  { [year |-> undefined, horizon |-> <<"0">>, param |-> temp_c],
    [year |-> <<"2023">>, horizon |-> <<>>, param |-> temp_c],
    [year |-> <<"2023">>, horizon |-> <<"0">>, param |-> undefined],
    [year |-> <<"2023">>, horizon |-> <<"0">>, param |-> density] }
  \cup [year : {<<"2023">>}, horizon : {<<"10">>},
        param : {temp_c, salinity_psu, oxygen_mgl, ph}]
Queries == WellFormedQueries \cup MalformedQueries

(* ------------------------------- state --------------------------------- *)
VARIABLES
  pc,               \* where startServer / precomputeAndCacheIsolines stands
  allData,          \* the rows loadData resolved with
  localCoastline,   \* the polygon getLocalCoastline returned, or Null
  coastEnv,         \* what getLocalCoastline met: the package and turf.intersect
  uniqueParams,     \* the year_horizon combinations, in insertion order
  ci,               \* index of the combination the outer loop is at
  pi,               \* index of the parameter the inner loop is at
  rawIsolines,      \* the features turf.isolines returned for the key
  clippedFeatures,  \* the array the clipping forEach fills
  li,               \* index of the line the clipping forEach is at
  finalIsolines,    \* the features of the collection about to be cached
  isolinesCache,    \* the Map: cache key -> FeatureCollection
  turf,             \* the behaviour of the installed turf, once it was called
  idwInputs,        \* the point collections turf.idw was called with
  setCalls,         \* per key, how often isolinesCache.set was called
  exitCode,         \* the code of process.exit, 0 while running
  lastQuery,        \* the query of the last GET /api/isolines
  lastResponse      \* and its response

vars == <<pc, allData, localCoastline, coastEnv, uniqueParams, ci, pi, rawIsolines,
          clippedFeatures, li, finalIsolines, isolinesCache, turf, idwInputs,
          setCalls, exitCode, lastQuery, lastResponse>>

NoQuery == [year |-> undefined, horizon |-> undefined, param |-> undefined]
NoResponse == Response(0, "", ErrorBody)

Init ==
  /\ pc = "start"
  /\ allData = <<>>
  /\ localCoastline = Null
  /\ coastEnv = Null
  /\ uniqueParams = <<>>
  /\ ci = 1
  /\ pi = 1
  /\ rawIsolines = <<>>
  /\ clippedFeatures = <<>>
  /\ li = 1
  /\ finalIsolines = <<>>
  /\ isolinesCache = <<>>
  /\ turf = TurfUnknown
  /\ idwInputs = {}
  /\ setCalls = <<>>
  /\ exitCode = 0
  /\ lastQuery = NoQuery
  /\ lastResponse = NoResponse

\* the key the loops stand at
CurYear == ComboYear(uniqueParams[ci])
CurHorizon == ComboHorizon(uniqueParams[ci])
CurParam == parameters[pi]
CurKey == CacheKey(CurYear, CurHorizon, CurParam)

\* isolinesCache.set(key, collection), counted
CacheWrite(key, collection) ==
  /\ isolinesCache' = MapSet(isolinesCache, key, collection)
  /\ setCalls' = MapSet(setCalls, key,
                        IF key \in DOMAIN setCalls THEN setCalls[key] + 1 ELSE 1)

\* the next turn of the inner loop, or of the outer one
NextKey ==
  IF pi < Len(parameters)
  THEN pi' = pi + 1 /\ ci' = ci
  ELSE pi' = 1 /\ ci' = ci + 1

\* loadData resolves: the file is read and every row is mapped
LoadDataOk ==
  /\ pc = "start"
  /\ \E results \in DataFiles : allData' = processedData(results)
  /\ pc' = "loaded"
  /\ UNCHANGED <<localCoastline, uniqueParams, ci, pi, rawIsolines, clippedFeatures,
                 li, finalIsolines, isolinesCache, turf, setCalls, exitCode, lastQuery,
                 lastResponse,
                 idwInputs, coastEnv>>

\* (variant) the catch marks the failure and startup carries on without data
LoadDataFailContinues ==
  /\ pc = "start"
  /\ pc' = "loaded"
  /\ exitCode' = 1
  /\ UNCHANGED <<allData, localCoastline, uniqueParams, ci, pi, rawIsolines,
                 clippedFeatures, li, finalIsolines, isolinesCache, turf, setCalls,
                 lastQuery, lastResponse,
                 idwInputs, coastEnv>>

\* loadData rejects (no data.csv, or the stream errors): startServer's catch
LoadDataFail ==
  /\ pc = "start"
  /\ pc' = "exit"
  /\ exitCode' = 1
  /\ UNCHANGED <<allData, localCoastline, uniqueParams, ci, pi, rawIsolines,
                 clippedFeatures, li, finalIsolines, isolinesCache, turf, setCalls,
                 lastQuery, lastResponse,
                 idwInputs, coastEnv>>

PrepareCoastline ==
  /\ pc = "loaded"
  /\ \E env \in CoastEnvs :
       /\ coastEnv' = env
       /\ localCoastline' = getLocalCoastline(allData, env)
  /\ pc' = "region"
  /\ UNCHANGED <<allData, uniqueParams, ci, pi, rawIsolines, clippedFeatures, li,
                 finalIsolines, isolinesCache, turf, setCalls, exitCode, lastQuery,
                 lastResponse,
                 idwInputs>>

\* (variant) precomputeAndCacheIsolines is called before getLocalCoastline
WarmStartEarly ==
  /\ pc = "loaded"
  /\ uniqueParams' = UniqueParams(allData)
  /\ ci' = 1
  /\ pi' = 1
  /\ pc' = "loop"
  /\ UNCHANGED <<allData, localCoastline, rawIsolines, clippedFeatures, li,
                 finalIsolines, isolinesCache, turf, setCalls, exitCode, lastQuery,
                 lastResponse,
                 idwInputs, coastEnv>>

\* precomputeAndCacheIsolines is called: the combinations are collected
WarmStart ==
  /\ pc = "region"
  /\ uniqueParams' = UniqueParams(allData)
  /\ ci' = 1
  /\ pi' = 1
  /\ pc' = "loop"
  /\ UNCHANGED <<allData, localCoastline, rawIsolines, clippedFeatures, li,
                 finalIsolines, isolinesCache, turf, setCalls, exitCode, lastQuery,
                 lastResponse,
                 idwInputs, coastEnv>>

\* (variant) the try/catch is around the loops: a throw ends the whole pass
WarmKeyAbortOnThrow ==
  /\ pc = "loop"
  /\ ci <= Len(uniqueParams)
  /\ LET features == Features(allData, CurYear, CurHorizon, CurParam)
     IN IF Len(features) < MinPoints
        THEN /\ CacheWrite(CurKey, featureCollection(<<>>))
             /\ NextKey
             /\ pc' = "loop"
             /\ UNCHANGED <<rawIsolines, clippedFeatures, li, finalIsolines, turf,
                            idwInputs>>
        ELSE \E mode \in (IF turf = TurfUnknown THEN TurfModes ELSE {turf}) :
               /\ turf' = mode
               /\ idwInputs' = idwInputs \cup {features}
               /\ IF idwThrows(mode, CurParam)
                  THEN /\ pc' = "warmed"
                       /\ UNCHANGED <<ci, pi, isolinesCache, setCalls, rawIsolines,
                                      clippedFeatures, li, finalIsolines>>
                  ELSE LET lines == isolines(mode, BreaksOf(features, CurParam), CurParam)
                       IN /\ rawIsolines' = lines
                          /\ clippedFeatures' = <<>>
                          /\ li' = 1
                          /\ IF localCoastline # Null /\ lines # <<>>
                             THEN pc' = "clip" /\ finalIsolines' = <<>>
                             ELSE pc' = "tag" /\ finalIsolines' = lines
                          /\ UNCHANGED <<ci, pi, isolinesCache, setCalls>>
  /\ UNCHANGED <<allData, localCoastline, uniqueParams, exitCode, lastQuery,
                 lastResponse, coastEnv>>

\* one key: too few points, or idw/isolines throw, or the lines are traced
WarmKey ==
  /\ pc = "loop"
  /\ ci <= Len(uniqueParams)
  /\ LET features == Features(allData, CurYear, CurHorizon, CurParam)
     IN IF Len(features) < MinPoints
        THEN /\ CacheWrite(CurKey, featureCollection(<<>>))
             /\ NextKey
             /\ pc' = "loop"
             /\ UNCHANGED <<rawIsolines, clippedFeatures, li, finalIsolines, turf,
                            idwInputs>>
        ELSE \E mode \in (IF turf = TurfUnknown THEN TurfModes ELSE {turf}) :
               /\ turf' = mode
               /\ idwInputs' = idwInputs \cup {features}
               /\ IF idwThrows(mode, CurParam)
                  THEN /\ CacheWrite(CurKey, featureCollection(<<>>))
                       /\ NextKey
                       /\ pc' = "loop"
                       /\ UNCHANGED <<rawIsolines, clippedFeatures, li, finalIsolines>>
                  ELSE LET lines == isolines(mode, BreaksOf(features, CurParam), CurParam)
                       IN /\ rawIsolines' = lines
                          /\ clippedFeatures' = <<>>
                          /\ li' = 1
                          /\ IF localCoastline # Null /\ lines # <<>>
                             THEN pc' = "clip" /\ finalIsolines' = <<>>
                             ELSE pc' = "tag" /\ finalIsolines' = lines
                          /\ UNCHANGED <<ci, pi, isolinesCache, setCalls>>
  /\ UNCHANGED <<allData, localCoastline, uniqueParams, exitCode, lastQuery,
                 lastResponse, coastEnv>>

\* one turn of rawIsolines.features.forEach; after the last, the collection
ClipLine ==
  /\ pc = "clip"
  /\ li <= Len(rawIsolines)
  /\ LET clipped == ClipOne(clippedFeatures, rawIsolines[li], localCoastline[1])
     IN /\ clippedFeatures' = clipped
        /\ li' = li + 1
        /\ IF li = Len(rawIsolines)
           THEN pc' = "tag" /\ finalIsolines' = clipped
           ELSE pc' = "clip" /\ finalIsolines' = finalIsolines
  /\ UNCHANGED <<allData, localCoastline, uniqueParams, ci, pi, rawIsolines,
                 isolinesCache, turf, setCalls, exitCode, lastQuery, lastResponse,
                 idwInputs, coastEnv>>

\* finalIsolines.features.forEach: every feature gets its value
TagFeatures ==
  /\ pc = "tag"
  /\ finalIsolines' = TagValues(finalIsolines, CurParam)
  /\ pc' = "set"
  /\ UNCHANGED <<allData, localCoastline, uniqueParams, ci, pi, rawIsolines,
                 clippedFeatures, li, isolinesCache, turf, setCalls, exitCode, lastQuery,
                 lastResponse,
                 idwInputs, coastEnv>>

\* isolinesCache.set(cacheKey, finalIsolines)
CacheFinal ==
  /\ pc = "set"
  /\ CacheWrite(CurKey, featureCollection(finalIsolines))
  /\ NextKey
  /\ pc' = "loop"
  /\ UNCHANGED <<allData, localCoastline, uniqueParams, rawIsolines, clippedFeatures,
                 li, finalIsolines, turf, exitCode, lastQuery, lastResponse,
                 idwInputs, coastEnv>>

\* the loops are over: precomputeAndCacheIsolines returns to startServer
WarmDone ==
  /\ pc = "loop"
  /\ ci > Len(uniqueParams)
  /\ pc' = "warmed"
  /\ UNCHANGED <<allData, localCoastline, uniqueParams, ci, pi, rawIsolines,
                 clippedFeatures, li, finalIsolines, isolinesCache, turf, setCalls,
                 exitCode, lastQuery, lastResponse,
                 idwInputs, coastEnv>>

\* the routes are registered and app.listen is called
Listen ==
  /\ pc = "warmed"
  /\ pc' = "listening"
  /\ UNCHANGED <<allData, localCoastline, uniqueParams, ci, pi, rawIsolines,
                 clippedFeatures, li, finalIsolines, isolinesCache, turf, setCalls,
                 exitCode, lastQuery, lastResponse,
                 idwInputs, coastEnv>>

\* (variant) a lookup that misses stores an empty collection under its key
LookupCachesMiss ==
  /\ pc = "listening"
  /\ lastResponse = NoResponse
  /\ \E query \in Queries :
       /\ lastQuery' = query
       /\ lastResponse' = IsolinesHandler(isolinesCache, query)
       /\ IF IsolinesHandler(isolinesCache, query).status = 404
          THEN isolinesCache' = MapSet(isolinesCache,
                                       CacheKey(query.year, query.horizon, query.param),
                                       featureCollection(<<>>))
          ELSE isolinesCache' = isolinesCache
  /\ UNCHANGED <<pc, allData, localCoastline, uniqueParams, ci, pi, rawIsolines,
                 clippedFeatures, li, finalIsolines, turf, setCalls,
                 exitCode,
                 idwInputs, coastEnv>>

\* one GET /api/isolines request is answered (one connection at a time)
Lookup ==
  /\ pc = "listening"
  /\ lastResponse = NoResponse
  /\ \E query \in Queries :
       /\ lastQuery' = query
       /\ lastResponse' = IsolinesHandler(isolinesCache, query)
  /\ UNCHANGED <<pc, allData, localCoastline, uniqueParams, ci, pi, rawIsolines,
                 clippedFeatures, li, finalIsolines, isolinesCache, turf, setCalls,
                 exitCode,
                 idwInputs, coastEnv>>

\* the response has been sent: the connection ends
Close ==
  /\ pc = "listening"
  /\ lastResponse # NoResponse
  /\ lastQuery' = NoQuery
  /\ lastResponse' = NoResponse
  /\ UNCHANGED <<pc, allData, localCoastline, uniqueParams, ci, pi, rawIsolines,
                 clippedFeatures, li, finalIsolines, isolinesCache, turf, setCalls,
                 exitCode,
                 idwInputs, coastEnv>>

Next ==
  \/ LoadDataOk
  \/ LoadDataFail
  \/ PrepareCoastline
  \/ WarmStart
  \/ WarmKey
  \/ ClipLine
  \/ TagFeatures
  \/ CacheFinal
  \/ WarmDone
  \/ Listen
  \/ Lookup
  \/ Close

Spec == Init /\ [][Next]_vars

(* ============================== claims ================================= *)
\* the server has registered its routes and called app.listen
Serving == pc = "listening"
\* precomputeAndCacheIsolines has been entered / has returned
WarmingStarted == pc \in {"loop", "clip", "tag", "set", "warmed", "listening"}
WarmingComplete == pc \in {"warmed", "listening"}

\* the supported enumerations, as the interface documents them
SupportedParams == {temp_c, salinity_psu, oxygen_mgl, ph}
SupportedHorizons == {<<"0">>, <<"dno">>}

\* a query that passes validation, and the key it asks for
ValidQuery(q) ==
  /\ q.year # undefined /\ q.year # <<>>
  /\ q.horizon \in SupportedHorizons
  /\ q.param \in SupportedParams
ValidQueries == {q \in Queries : ValidQuery(q)}
QueryKey(q) == q.year \o <<"_">> \o q.horizon \o <<"_">> \o q.param

\* the keys the warming pass writes for the loaded data
PlannedKeys ==
  {CacheKey(ComboYear(uniqueParams[c]), ComboHorizon(uniqueParams[c]), parameters[j]) :
     c \in 1..Len(uniqueParams), j \in 1..Len(parameters)}

\* the rows of the loaded data with this year and horizon
RowsOf(year, horizon) ==
  {i \in 1..Len(allData) : allData[i].year = year /\ allData[i].horizon = horizon}
\* those of them usable for a parameter: finite value, finite coordinates
UsableRows(year, horizon, param) ==
  {i \in RowsOf(year, horizon) :
     /\ Field(allData[i], param) \notin {NaN, Infinity}
     /\ allData[i].longitude \notin {NaN, Infinity}
     /\ allData[i].latitude \notin {NaN, Infinity}}

\* what a client that sends q now gets: nothing before the server listens
Outcome(q) ==
  IF ~Serving THEN "no_response"
  ELSE LET r == IsolinesHandler(isolinesCache, q)
       IN CASE r.status = 200 -> "entry"
            [] r.status = 404 -> "miss"
            [] OTHER -> "rejected"

\* C1 (as claimed): from the moment the warming pass runs, a lookup for a key
\* of the loaded data is answered: with the not-ready outcome while the key is
\* not yet computed, with the entry once it is.
C1_NotReadyThenEntry ==
  WarmingStarted =>
    \A q \in ValidQueries :
      QueryKey(q) \in PlannedKeys =>
        Outcome(q) = (IF QueryKey(q) \in DOMAIN isolinesCache THEN "entry" ELSE "miss")

\* C1 (the half that holds): an entry a lookup returns is the complete entry
\* of the cache, every feature of it tagged with its value; no collection
\* under construction is ever in the cache.
C1_AnsweredEntriesComplete ==
  /\ lastResponse.status = 200 =>
       /\ lastResponse.body = isolinesCache[QueryKey(lastQuery)]
       /\ \A f \in Range(lastResponse.body.features) : valueField \in DOMAIN f.properties
  /\ \A k \in DOMAIN isolinesCache :
       \A f \in Range(isolinesCache[k].features) : valueField \in DOMAIN f.properties

\* C2 (as claimed): the response for a key the warming pass has not yet
\* computed differs from the response for a key it will never compute.
C2_NotReadyDiffersFromNotFound ==
  WarmingStarted =>
    \A q1, q2 \in ValidQueries :
      ( /\ QueryKey(q1) \in PlannedKeys \ DOMAIN isolinesCache
        /\ QueryKey(q2) \notin PlannedKeys )
      => LET r1 == IsolinesHandler(isolinesCache, q1)
             r2 == IsolinesHandler(isolinesCache, q2)
         IN <<r1.status, r1.error>> # <<r2.status, r2.error>>

\* C2 (amended): a validated lookup has two outcomes: the cached entry with
\* status 200 when the key is in the cache, and otherwise one and the same
\* 404 "not found or not yet processed" response, whether the key is still
\* to be computed or will never be. Stated of what the handler would answer
\* on the cache of every state before the server listens, and of what it did
\* answer once it listens.
C2_EntryOrOneMiss ==
  /\ ~Serving =>
     \A q \in ValidQueries :
       LET r == IsolinesHandler(isolinesCache, q)
       IN IF QueryKey(q) \in DOMAIN isolinesCache
          THEN r.status = 200 /\ r.body = isolinesCache[QueryKey(q)]
          ELSE /\ r.status = 404
               /\ r.error = "not_found_or_not_processed"
               /\ r.body.type # "FeatureCollection"
  /\ (lastResponse.status # 0 /\ ValidQuery(lastQuery)) =>
       IF QueryKey(lastQuery) \in DOMAIN isolinesCache
       THEN lastResponse.status = 200 /\ lastResponse.body = isolinesCache[QueryKey(lastQuery)]
       ELSE lastResponse.status = 404 /\ lastResponse.error = "not_found_or_not_processed"

\* C2 witness: one lookup was answered 404 although the cache holds entries,
\* and another validated query would get an entry
C2_Witness ==
  /\ lastResponse.status = 404
  /\ ValidQuery(lastQuery)
  /\ \E q \in ValidQueries : IsolinesHandler(isolinesCache, q).status = 200

\* C3: a computed-but-empty key is answered 200 with an empty
\* FeatureCollection, an absent key is answered with an error body and a
\* status other than 200: the two responses are never the same.
C3_EmptyDistinctFromAbsent ==
  /\ ~Serving =>
     \A q \in ValidQueries :
       LET r == IsolinesHandler(isolinesCache, q)
       IN /\ ( QueryKey(q) \in DOMAIN isolinesCache
               /\ isolinesCache[QueryKey(q)].features = <<>> )
             => ( r.status = 200 /\ r.body.type = "FeatureCollection"
                  /\ r.body.features = <<>> /\ r.error = "" )
          /\ QueryKey(q) \notin DOMAIN isolinesCache
             => ( r.status # 200 /\ r.body.type # "FeatureCollection" /\ r.error # "" )
  /\ (lastResponse.status # 0 /\ ValidQuery(lastQuery)) =>
       ( lastResponse.body.type = "FeatureCollection"
         <=> QueryKey(lastQuery) \in DOMAIN isolinesCache )

\* C3 witness: a lookup was answered with an empty collection while another
\* validated key is absent from the cache
C3_Witness ==
  /\ lastResponse.status = 200
  /\ lastResponse.body.features = <<>>
  /\ \E q \in ValidQueries : QueryKey(q) \notin DOMAIN isolinesCache

\* C4 (as claimed): warming does not hold up the start of the server: when the
\* pass has keys to write, the server is listening by the time the last of
\* them is written.
C4_WarmingDoesNotBlockStart ==
  (WarmingComplete /\ uniqueParams # <<>>) => Serving

\* C5 (as claimed): isolinesCache.set is called at most once per key.
C5_SetAtMostOncePerKey ==
  \A k \in DOMAIN setCalls : setCalls[k] <= 1

\* C6 (as claimed): after warming, for every loaded row with a year and a
\* supported horizon and every supported parameter, the lookup with the row's
\* year and horizon hits an entry, and that entry is empty when fewer than
\* three rows of that year and horizon are usable.
C6_RowKeyHits ==
  WarmingComplete =>
    \A i \in 1..Len(allData) : \A param \in SupportedParams :
      LET row == allData[i]
          r == IsolinesHandler(isolinesCache,
                               [year |-> row.year, horizon |-> row.horizon, param |-> param])
      IN (row.year \notin {undefined, <<>>} /\ row.horizon \in SupportedHorizons)
         => /\ r.status = 200
            /\ Cardinality(UsableRows(row.year, row.horizon, param)) < 3
               => r.body.features = <<>>

\* a query the validation must reject
InvalidQuery(q) ==
  \/ q.year \in {undefined, <<>>}
  \/ q.horizon \in {undefined, <<>>}
  \/ q.param \in {undefined, <<>>}
  \/ q.param \notin SupportedParams
  \/ q.horizon \notin SupportedHorizons

\* C7: a query with a missing field, an unsupported parameter or an
\* unsupported horizon is answered 400, whatever the cache holds: never 404,
\* never an entry.
C7_InvalidRejected ==
  /\ ~Serving =>
     \A q \in Queries :
       InvalidQuery(q) =>
         LET r == IsolinesHandler(isolinesCache, q)
         IN r.status = 400 /\ r.body.type # "FeatureCollection"
  /\ (lastResponse.status # 0 /\ InvalidQuery(lastQuery)) => lastResponse.status = 400

\* C7 witness: a lookup was rejected although the cache holds an entry under
\* the very key the query spells
C7_Witness ==
  /\ lastResponse.status = 400
  /\ lastQuery.year # undefined
  /\ lastQuery.param # undefined
  /\ QueryKey(lastQuery) \in DOMAIN isolinesCache

\* C8 (as claimed): after warming, every validated lookup for which fewer
\* than three samples are usable returns an empty collection.
C8_FewPointsEmpty ==
  WarmingComplete =>
    \A q \in ValidQueries :
      Cardinality(UsableRows(q.year, q.horizon, q.param)) < 3
      => LET r == IsolinesHandler(isolinesCache, q)
         IN r.status = 200 /\ r.body.features = <<>>

\* the warming pass enumerated this year and horizon
Enumerated(year, horizon) ==
  \E c \in 1..Len(uniqueParams) :
    ComboYear(uniqueParams[c]) = year /\ ComboHorizon(uniqueParams[c]) = horizon

\* C8 (amended): after warming, every validated lookup whose year and horizon
\* the warming pass enumerated and for which fewer than three samples are
\* usable returns an empty collection with status 200; when the pass never
\* enumerated the pair the lookup is answered 404.
C8_FewPointsEmptyIfEnumerated ==
  /\ (WarmingComplete /\ ~Serving) =>
       \A q \in ValidQueries :
         Cardinality(UsableRows(q.year, q.horizon, q.param)) < 3
         => LET r == IsolinesHandler(isolinesCache, q)
            IN IF Enumerated(q.year, q.horizon)
               THEN r.status = 200 /\ r.body.features = <<>>
               ELSE r.status = 404
  /\ ( lastResponse.status # 0 /\ ValidQuery(lastQuery)
       /\ Enumerated(lastQuery.year, lastQuery.horizon)
       /\ Cardinality(UsableRows(lastQuery.year, lastQuery.horizon, lastQuery.param)) < 3 )
     => lastResponse.status = 200 /\ lastResponse.body.features = <<>>

\* C8 witness: a lookup for a pair with one or two usable rows (and a third
\* row that is not usable) was answered with the empty collection
C8_Witness ==
  /\ lastResponse.status = 200
  /\ lastResponse.body.features = <<>>
  /\ ValidQuery(lastQuery)
  /\ Cardinality(RowsOf(lastQuery.year, lastQuery.horizon)) >= 3
  /\ Cardinality(UsableRows(lastQuery.year, lastQuery.horizon, lastQuery.param)) \in {1, 2}

\* C9 (as claimed): once warming is complete, a validated lookup whose year and
\* horizon occur together in no loaded row is answered 404.
C9_AbsentPairNotFound ==
  WarmingComplete =>
    \A q \in ValidQueries :
      RowsOf(q.year, q.horizon) = {}
      => IsolinesHandler(isolinesCache, q).status = 404

\* the features of every cache entry
CachedFeatures ==
  UNION {Range(isolinesCache[k].features) : k \in DOMAIN isolinesCache}

\* C10 (as claimed): no cached line has a part inside the coastline polygon.
C10_NoLineOnLand ==
  localCoastline # Null =>
    \A f \in CachedFeatures : f.geom \cap localCoastline[1] = {}

\* C10 (amended): every cached line that turf.difference clipped without
\* throwing against an available coastline polygon has no part inside that
\* polygon; a line whose clip threw is cached unclipped, and nothing is
\* clipped when getLocalCoastline returned null.
C10_ClippedLinesOffLand ==
  localCoastline # Null =>
    \A f \in CachedFeatures : ~f.degenerate => f.geom \cap localCoastline[1] = {}

\* C10 witness: with land inside the region, an entry holds a clipped line and
\* fewer lines than were traced (the lines wholly on land are gone)
C10_Witness ==
  /\ localCoastline = <<{1}>>
  /\ \E k \in DOMAIN isolinesCache :
       /\ \E f \in Range(isolinesCache[k].features) : ~f.degenerate /\ f.geom = {2}
       /\ \E f \in Range(isolinesCache[k].features) : f.degenerate
       /\ Len(isolinesCache[k].features) < Len(rawIsolines)

\* the traced lines that leave something in the result: the lines whose clip
\* throws, and the lines with a part outside the polygon
KeptLines(lines, polygon) ==
  SelectSeq(lines, LAMBDA l : l.degenerate \/ l.geom \ polygon # {})

\* what the claim expects of the traced lines of one key: a line whose clip
\* throws as it was traced, every other kept line reduced to its part outside
\* the polygon, in the order of tracing, each with its threshold and value
ExpectedClipped(lines, polygon, param) ==
  LET kept == KeptLines(lines, polygon)
  IN [i \in 1..Len(kept) |->
        [properties |-> (valueField :> kept[i].properties[param])
                        @@ (param :> kept[i].properties[param]),
         geom |-> IF kept[i].degenerate THEN kept[i].geom ELSE kept[i].geom \ polygon,
         degenerate |-> kept[i].degenerate]]

\* C11: when turf.difference throws for a contour line, that line is kept
\* unclipped, the other lines of the key are still clipped and added in the
\* order of tracing, and the key is cached as a FeatureCollection of them.
C11_ClipFailureKeepsLine ==
  [][(pc = "set" /\ localCoastline # Null)
     => /\ CurKey \in DOMAIN isolinesCache'
        /\ isolinesCache'[CurKey].type = "FeatureCollection"
        /\ isolinesCache'[CurKey].features
             = ExpectedClipped(rawIsolines, localCoastline[1], CurParam)]_vars

\* C11 witness: an entry holds a line kept unclipped across the land (its
\* clip threw) between two lines that were clipped, thresholds ascending
C11_Witness ==
  /\ localCoastline # Null
  /\ \E k \in DOMAIN isolinesCache :
       LET fs == isolinesCache[k].features
       IN \E i \in 2..(Len(fs) - 1) :
            /\ fs[i].degenerate /\ fs[i].geom \cap localCoastline[1] # {}
            /\ ~fs[i - 1].degenerate /\ ~fs[i + 1].degenerate
            /\ fs[i + 1].geom \cap localCoastline[1] = {}
            /\ fs[i - 1].properties[valueField] < fs[i].properties[valueField]
            /\ fs[i].properties[valueField] < fs[i + 1].properties[valueField]

\* C12: when getLocalCoastline returned null, clipping is a pass-through: the
\* entry written for a key holds exactly the lines turf.isolines traced for
\* it, as many, in the same order, each with the same geometry and threshold.
C12_NoPolygonPassThrough ==
  [][(pc = "set" /\ localCoastline = Null)
     => /\ CurKey \in DOMAIN isolinesCache'
        /\ LET fs == isolinesCache'[CurKey].features
           IN /\ Len(fs) = Len(rawIsolines)
              /\ \A i \in 1..Len(fs) :
                   /\ fs[i].geom = rawIsolines[i].geom
                   /\ fs[i].degenerate = rawIsolines[i].degenerate
                   /\ fs[i].properties[CurParam] = rawIsolines[i].properties[CurParam]]_vars

\* C12 witness: without a polygon, an entry holds every traced line, among
\* them lines on land and across the shore, thresholds not all equal
C12_Witness ==
  /\ localCoastline = Null
  /\ pc = "loop"
  /\ \E k \in DOMAIN isolinesCache :
       LET fs == isolinesCache[k].features
       IN /\ Len(fs) >= NumBreaks - 1
          /\ Len(fs) = Len(rawIsolines)
          /\ \E i \in 1..Len(fs) : fs[i].geom = {1}
          /\ \E i \in 1..Len(fs) : fs[i].degenerate
          /\ fs[1].properties[valueField] < fs[Len(fs)].properties[valueField]

\* the values of the points the filter keeps for a combination and parameter
DataValues(c, j) ==
  LET features == Features(allData, ComboYear(uniqueParams[c]),
                           ComboHorizon(uniqueParams[c]), parameters[j])
  IN [i \in 1..Len(features) |-> features[i].properties[parameters[j]]]

\* C13 (as claimed): no cached line is tagged with a threshold that is not
\* strictly between the smallest and the largest value of the key's points.
C13_NoExtremeBreakCached ==
  \A c \in 1..Len(uniqueParams) : \A j \in 1..Len(parameters) :
    LET key == CacheKey(ComboYear(uniqueParams[c]), ComboHorizon(uniqueParams[c]),
                        parameters[j])
    IN key \in DOMAIN isolinesCache =>
         \A f \in Range(isolinesCache[key].features) :
           /\ f.properties[parameters[j]] > BreakDiv * MathMin(DataValues(c, j))
           /\ f.properties[parameters[j]] < BreakDiv * MathMax(DataValues(c, j))

\* every feature of the collection carries value = its threshold for param
Tagged(collection, param) ==
  \A f \in Range(collection.features) :
    /\ valueField \in DOMAIN f.properties
    /\ param \in DOMAIN f.properties
    /\ f.properties[valueField] = f.properties[param]

\* C14: every feature of every cache entry, and of every entry a lookup
\* returned, carries under `value` the threshold it has under the key's
\* parameter, whether it was clipped, kept unclipped after a failed clip, or
\* never clipped because there is no polygon.
C14_FeaturesCarryValue ==
  /\ DOMAIN isolinesCache \subseteq PlannedKeys
  /\ \A c \in 1..Len(uniqueParams) : \A j \in 1..Len(parameters) :
       LET key == CacheKey(ComboYear(uniqueParams[c]), ComboHorizon(uniqueParams[c]),
                           parameters[j])
       IN key \in DOMAIN isolinesCache => Tagged(isolinesCache[key], parameters[j])
  /\ lastResponse.status = 200 => Tagged(lastResponse.body, lastQuery.param)

\* C14 witness: a lookup returned an entry that holds a clipped line and a
\* line kept unclipped after its clip failed
C14_Witness ==
  /\ localCoastline # Null
  /\ lastResponse.status = 200
  /\ \E f \in Range(lastResponse.body.features) :
       f.degenerate /\ f.geom \cap localCoastline[1] # {}
  /\ \E f \in Range(lastResponse.body.features) :
       ~f.degenerate /\ f.geom \cap localCoastline[1] = {}

\* C15: when loadData rejects, the process exits with code 1 and does nothing
\* more: no coastline is prepared, warming never starts, the cache stays
\* empty, the server never listens. Exit code 1 is set on that path alone,
\* and no step follows the exit.
C15_LoadFailureAborts ==
  /\ [](exitCode = 1 =>
          /\ pc = "exit"
          /\ allData = <<>>
          /\ localCoastline = Null
          /\ ~WarmingStarted
          /\ uniqueParams = <<>>
          /\ isolinesCache = <<>>
          /\ setCalls = <<>>
          /\ ~Serving
          /\ lastResponse = NoResponse)
  /\ [](pc = "exit" => exitCode = 1)
  /\ [][pc # "exit"]_vars

\* C15 witness: the process has exited with code 1
C15_Witness ==
  /\ pc = "exit"
  /\ exitCode = 1
  /\ isolinesCache = <<>>

\* the readiness state a position of startServer stands for: Uninitialized
\* and Loading until loadData resolves, then the region being built,
\* RegionReady, Warming, Ready
ReadinessState(p) ==
  CASE p = "start" -> "Loading"
    [] p = "loaded" -> "Loaded"
    [] p = "region" -> "RegionReady"
    [] p \in {"loop", "clip", "tag", "set"} -> "Warming"
    [] p \in {"warmed", "listening"} -> "Ready"
    [] OTHER -> "Exited"
ReadinessOrder == <<"Loading", "Loaded", "RegionReady", "Warming", "Ready">>
\* the readiness state that may follow a readiness state
ReadinessSuccessor(r) ==
  {ReadinessOrder[i + 1] : i \in {i \in 1..(Len(ReadinessOrder) - 1) : ReadinessOrder[i] = r}}

\* C16: the process passes through the readiness states only in the order
\* Loading, RegionReady, Warming, Ready (or leaves Loading by exiting); once
\* warming has started the samples and the coastline no longer change; the
\* cache is written only by a step taken in Warming; a lookup is answered
\* only in Ready.
C16_ReadinessOrder ==
  /\ [][LET r == ReadinessState(pc)
            r2 == ReadinessState(pc')
        IN \/ r2 = r
           \/ r2 \in ReadinessSuccessor(r)
           \/ r = "Loading" /\ r2 = "Exited"]_vars
  /\ [][ReadinessState(pc) # "Loading" => allData' = allData]_vars
  /\ [][WarmingStarted => localCoastline' = localCoastline]_vars
  /\ [](WarmingStarted => uniqueParams = UniqueParams(allData))
  /\ [][isolinesCache' # isolinesCache
        => ReadinessState(pc) = "Warming" /\ ReadinessState(pc') = "Warming"]_vars
  /\ [](ReadinessState(pc) \in {"Loading", "Loaded", "RegionReady"}
          => isolinesCache = <<>>)
  /\ [][lastResponse' # lastResponse => ReadinessState(pc) = "Ready"]_vars
  /\ [](lastResponse # NoResponse => Serving /\ WarmingComplete)

\* C16 witness: the server is Ready with a cache the warming pass filled from
\* loaded rows and a prepared coastline, and has answered a lookup
C16_Witness ==
  /\ ReadinessState(pc) = "Ready"
  /\ allData # <<>>
  /\ localCoastline # Null
  /\ isolinesCache # <<>>
  /\ lastResponse.status = 200

\* the (year, horizon) pairs observed in the loaded rows: rows with a
\* non-empty year and a non-empty horizon
ObservedPairs ==
  {<<allData[i].year, allData[i].horizon>> :
     i \in {i \in 1..Len(allData) :
              /\ allData[i].year \notin {undefined, <<>>}
              /\ allData[i].horizon \notin {undefined, <<>>}}}

\* C17 (as claimed): when the warming pass has finished, the cache holds an
\* entry for every observed (year, horizon) pair and each of the four
\* parameters, and has 4 times as many entries as there are observed pairs.
C17_EntryPerObservedPair ==
  WarmingComplete =>
    /\ \A yh \in ObservedPairs : \A param \in SupportedParams :
         yh[1] \o <<"_">> \o yh[2] \o <<"_">> \o param \in DOMAIN isolinesCache
    /\ Cardinality(DOMAIN isolinesCache)
         = Cardinality(SupportedParams) * Cardinality(ObservedPairs)

\* the scheduler keeps running the process while a step is possible
FairSpec == Spec /\ WF_vars(Next)

\* C17 (the half that holds): the warming pass, once entered, returns
C17_WarmingTerminates == WarmingStarted ~> WarmingComplete

\* the key of the c-th combination and the j-th parameter, and the number of
\* points the filter keeps for it
KeyAt(c, j) ==
  CacheKey(ComboYear(uniqueParams[c]), ComboHorizon(uniqueParams[c]), parameters[j])
PointsAt(c, j) == Len(DataValues(c, j))

\* C18: a throw of turf.idw or turf.isolines for one key does not interrupt
\* the warming pass: the step that meets it caches the empty collection
\* under that key and moves to the next key, and when the pass has finished
\* every key of the iteration is cached: the keys that threw as empty
\* collections, the keys with enough points that did not throw with their
\* lines.
C18_FailureDoesNotInterrupt ==
  /\ [][(pc = "loop" /\ ci <= Len(uniqueParams) /\ PointsAt(ci, pi) >= MinPoints
         /\ idwThrows(turf', CurParam))
        => /\ pc' = "loop"
           /\ CurKey \in DOMAIN isolinesCache'
           /\ isolinesCache'[CurKey] = featureCollection(<<>>)
           /\ <<ci', pi'>> = (IF pi < Len(parameters) THEN <<ci, pi + 1>>
                              ELSE <<ci + 1, 1>>)]_vars
  /\ [](WarmingComplete =>
          \A c \in 1..Len(uniqueParams) : \A j \in 1..Len(parameters) :
            /\ KeyAt(c, j) \in DOMAIN isolinesCache
            /\ PointsAt(c, j) >= MinPoints =>
                 IF idwThrows(turf, parameters[j])
                 THEN isolinesCache[KeyAt(c, j)].features = <<>>
                 ELSE isolinesCache[KeyAt(c, j)].features # <<>>)

\* C18 witness: the pass has finished; the salinity key of a combination
\* threw and is cached empty, the oxygen and ph keys that follow it in the
\* iteration are cached with lines
C18_Witness ==
  /\ WarmingComplete
  /\ turf = "throwsSome"
  /\ \E c \in 1..Len(uniqueParams) :
       /\ PointsAt(c, 2) >= MinPoints
       /\ isolinesCache[KeyAt(c, 2)].features = <<>>
       /\ isolinesCache[KeyAt(c, 3)].features # <<>>
       /\ isolinesCache[KeyAt(c, 4)].features # <<>>

\* a point with a finite value under every property and finite coordinates
FinitePoint(pt) ==
  /\ \A k \in DOMAIN pt.properties : pt.properties[k] \notin {NaN, Infinity}
  /\ \A k \in DOMAIN pt.coordinates : pt.coordinates[k] \notin {NaN, Infinity}

\* C19: for a key with fewer than 3 usable rows the warming step caches the
\* empty collection and calls neither turf.idw nor turf.isolines nor the
\* clipping; turf.idw is only ever called with at least 3 points, each with a
\* finite value and finite longitude and latitude, and it is called for
\* every key that has them.
C19_FewPointsShortCircuit ==
  /\ [][(pc = "loop" /\ ci <= Len(uniqueParams)
         /\ Cardinality(UsableRows(CurYear, CurHorizon, CurParam)) < 3)
        => /\ CurKey \in DOMAIN isolinesCache'
           /\ isolinesCache'[CurKey] = featureCollection(<<>>)
           /\ idwInputs' = idwInputs
           /\ turf' = turf
           /\ rawIsolines' = rawIsolines
           /\ clippedFeatures' = clippedFeatures
           /\ pc' = "loop"]_vars
  /\ [][(pc = "loop" /\ ci <= Len(uniqueParams)
         /\ Cardinality(UsableRows(CurYear, CurHorizon, CurParam)) >= 3)
        => /\ idwInputs' # {}
           /\ \E input \in idwInputs' :
                Len(input) = Cardinality(UsableRows(CurYear, CurHorizon, CurParam))]_vars
  /\ [](\A input \in idwInputs :
          /\ Len(input) >= 3
          /\ \A i \in 1..Len(input) : FinitePoint(input[i]))

\* C19 witness: of one combination with three rows, a key with only one or
\* two usable rows is cached empty and never reached turf.idw, while another
\* key of the same combination did
C19_Witness ==
  \E c \in 1..Len(uniqueParams) : \E j, j2 \in 1..Len(parameters) :
    /\ PointsAt(c, j) \in {1, 2}
    /\ KeyAt(c, j) \in DOMAIN isolinesCache
    /\ isolinesCache[KeyAt(c, j)].features = <<>>
    /\ \A input \in idwInputs :
         \A i \in 1..Len(input) : parameters[j] \notin DOMAIN input[i].properties
    /\ \E input \in idwInputs :
         \A i \in 1..Len(input) : parameters[j2] \in DOMAIN input[i].properties

\* no loaded row has both a finite longitude and a finite latitude
NoFiniteCoordinates ==
  \A i \in 1..Len(allData) :
    allData[i].longitude \in {NaN, Infinity} \/ allData[i].latitude \in {NaN, Infinity}

\* C20: when no loaded row has finite coordinates, getLocalCoastline returns
\* null without ending the process, turf.idw is never called, and every entry
\* the warming pass writes is the empty collection.
C20_NoCoordinatesAllEmpty ==
  (pc \notin {"start", "exit"} /\ NoFiniteCoordinates) =>
    /\ localCoastline = Null
    /\ exitCode = 0
    /\ idwInputs = {}
    /\ \A k \in DOMAIN isolinesCache : isolinesCache[k] = featureCollection(<<>>)
    /\ WarmingComplete => PlannedKeys \subseteq DOMAIN isolinesCache

\* C20 witness: rows were loaded, none with finite coordinates; the server
\* listens and has answered a lookup with the empty collection
C20_Witness ==
  /\ allData # <<>>
  /\ NoFiniteCoordinates
  /\ Serving
  /\ isolinesCache # <<>>
  /\ lastResponse.status = 200
  /\ lastResponse.body = featureCollection(<<>>)

\* getLocalCoastline has returned
CoastlinePrepared == pc \notin {"start", "loaded", "exit"}

\* C21 (as claimed): once the coastline is built, clipping is skipped (the
\* polygon is null) only when the global polygon itself is unavailable; when
\* it is available and the intersection is empty or fails, the polygon used
\* is the unclipped global polygon.
C21_FallbackToGlobalPolygon ==
  CoastlinePrepared =>
    /\ localCoastline = Null => ~coastEnv.available
    /\ ( coastEnv.available
         /\ (coastEnv.intersectThrows \/ coastEnv.land \cap RegionCells = {}) )
       => localCoastline = <<coastEnv.land>>

\* the point set the claim gives a key: the rows of its year and horizon with
\* a finite value of its parameter and finite coordinates, in file order
ExpectedPoints(year, horizon, param) ==
  LET rows == SelectSeq([i \in 1..Len(allData) |-> i],
                        LAMBDA i : i \in UsableRows(year, horizon, param))
  IN [k \in 1..Len(rows) |->
        [coordinates |-> <<allData[rows[k]].longitude, allData[rows[k]].latitude>>,
         properties |-> (param :> Field(allData[rows[k]], param))]]

\* C22: the point set of a key is exactly the rows of its year and horizon
\* with a finite value of its parameter and finite longitude and latitude: a
\* non-finite value takes a row out of that parameter's keys only, a
\* non-finite coordinate out of all of them. Stated of the filter at every key
\* of the pass and of every collection turf.idw was called with.
C22_PointSetPerParameter ==
  /\ []((pc = "loop" /\ ci <= Len(uniqueParams))
          => Features(allData, CurYear, CurHorizon, CurParam)
               = ExpectedPoints(CurYear, CurHorizon, CurParam))
  /\ [][(pc = "loop" /\ ci <= Len(uniqueParams)
         /\ Cardinality(UsableRows(CurYear, CurHorizon, CurParam)) >= 3)
        => ExpectedPoints(CurYear, CurHorizon, CurParam) \in idwInputs']_vars
  /\ [](\A input \in idwInputs :
          \E c \in 1..Len(uniqueParams) : \E j \in 1..Len(parameters) :
            input = ExpectedPoints(ComboYear(uniqueParams[c]),
                                   ComboHorizon(uniqueParams[c]), parameters[j]))

\* C22 witness: a row with a non-finite temperature and finite coordinates
\* was left out of the temperature key and passed to turf.idw for salinity
C22_Witness ==
  \E r \in 1..Len(allData) :
    /\ allData[r].temp_c = NaN
    /\ allData[r].salinity_psu \notin {NaN, Infinity}
    /\ \E input \in idwInputs : \E i \in 1..Len(input) :
         /\ salinity_psu \in DOMAIN input[i].properties
         /\ input[i].properties[salinity_psu] = allData[r].salinity_psu
    /\ \A input \in idwInputs : \A i \in 1..Len(input) :
         temp_c \notin DOMAIN input[i].properties
    /\ \E c \in 1..Len(uniqueParams) :
         /\ KeyAt(c, 1) \in DOMAIN isolinesCache
         /\ PointsAt(c, 1) = 2

\* no two neighbours of the sequence are equal or descending
StrictlyIncreasing(seq) == \A i \in 1..(Len(seq) - 1) : seq[i] < seq[i + 1]

\* C23 (as claimed): for every key that reaches turf.isolines, the breaks are
\* strictly increasing, and so are the thresholds of the lines traced from
\* them, also when all values of the key are equal.
C23_BreaksStrictlyIncreasing ==
  /\ (pc = "loop" /\ ci <= Len(uniqueParams) /\ PointsAt(ci, pi) >= MinPoints)
       => StrictlyIncreasing(BreaksOf(Features(allData, CurYear, CurHorizon, CurParam),
                                      CurParam))
  /\ pc \in {"clip", "tag"}
       => StrictlyIncreasing([i \in 1..Len(rawIsolines) |->
                               rawIsolines[i].properties[CurParam]])

\* C24: a GET /api/isolines request, whatever its status, leaves the cache,
\* the loaded rows and the coastline polygon as they were; the cache changes
\* only by a step of the warming pass, and never once the server listens.
C24_LookupsArePureReads ==
  /\ [][(lastQuery' # lastQuery \/ lastResponse' # lastResponse)
        => /\ isolinesCache' = isolinesCache
           /\ setCalls' = setCalls
           /\ allData' = allData
           /\ localCoastline' = localCoastline
           /\ uniqueParams' = uniqueParams]_vars
  /\ [][Serving => isolinesCache' = isolinesCache /\ setCalls' = setCalls]_vars
  /\ [][isolinesCache' # isolinesCache
        => pc \in {"loop", "set"} /\ setCalls' # setCalls]_vars

\* C24 witness: a lookup was answered 404 by a server whose cache holds every
\* key the warming pass planned, and nothing else
C24_Witness ==
  /\ Serving
  /\ lastResponse.status = 404
  /\ isolinesCache # <<>>
  /\ DOMAIN isolinesCache = PlannedKeys
  /\ QueryKey(lastQuery) \notin DOMAIN isolinesCache

\* every lookup that passes validation and spells the key k: its year is a
\* prefix of k
LookupsFor(k) ==
  {q \in [year : {SubSeq(k, 1, n) : n \in 1..Len(k)},
          horizon : SupportedHorizons,
          param : SupportedParams] : QueryKey(q) = k}

\* C25 (as claimed): every key in the cache is returned by some lookup with a
\* supported horizon and a supported parameter.
C25_WrittenKeysRetrievable ==
  \A k \in DOMAIN isolinesCache :
    \E q \in LookupsFor(k) :
      LET r == IsolinesHandler(isolinesCache, q)
      IN r.status = 200 /\ r.body = isolinesCache[k]

====
